---- MODULE Spec2Model ----
(***************************************************************************)
(* MLFS (src/mlfs.py): the in-memory node tree, the tree builder, the path *)
(* resolver and the FUSE callbacks with their write policy.                *)
(*                                                                         *)
(* Text (paths, qualified names, node names) is a sequence of letters; a   *)
(* letter of the model is either a separator ("/" or ".") or a run of      *)
(* ordinary characters ("model", "bin", "w") that no operation of the      *)
(* program ever looks inside.  Payloads are sequences of bytes.            *)
(***************************************************************************)
EXTENDS Integers, Sequences, FiniteSets, TLC

\* ------------------------------------------------------------------ bounds
MaxBuf == 2
MaxOff == 1
MaxGrow == 2

\* two byte values tell a written byte from a zero fill and from an old byte
Byte == {0, 1}

\* ------------------------------------------------- python string helpers
startswith(s, pre) ==
    Len(s) >= Len(pre) /\ SubSeq(s, 1, Len(pre)) = pre

endswith(s, suf) ==
    Len(s) >= Len(suf) /\ SubSeq(s, Len(s) - Len(suf) + 1, Len(s)) = suf

RECURSIVE lstrip(_, _)
lstrip(s, ch) ==
    IF s # <<>> /\ Head(s) = ch THEN lstrip(Tail(s), ch) ELSE s

RECURSIVE rstrip(_, _)
rstrip(s, ch) ==
    IF s # <<>> /\ s[Len(s)] = ch THEN rstrip(SubSeq(s, 1, Len(s) - 1), ch) ELSE s

strip(s, ch) == rstrip(lstrip(s, ch), ch)

\* str.split(sep): always at least one field, empty fields are kept
RECURSIVE split(_, _)
split(s, sep) ==
    IF \E i \in 1..Len(s) : s[i] = sep
    THEN LET i == CHOOSE j \in 1..Len(s) :
                     s[j] = sep /\ \A k \in 1..(j - 1) : s[k] # sep
         IN  <<SubSeq(s, 1, i - 1)>> \o split(SubSeq(s, i + 1, Len(s)), sep)
    ELSE <<s>>

\* filter(None, parts): drops the empty fields
RECURSIVE filterNone(_)
filterNone(parts) ==
    IF parts = <<>> THEN <<>>
    ELSE IF Head(parts) = <<>> THEN filterNone(Tail(parts))
         ELSE <<Head(parts)>> \o filterNone(Tail(parts))

\* python slices with non-negative indices: s[i:j] and s[i:j] = b
Min(a, b) == IF a < b THEN a ELSE b
Max(a, b) == IF a > b THEN a ELSE b

Slice_FromStart(s, i, j) == SubSeq(s, 1, Min(j - i, Len(s)))

Slice(s, i, j) ==
    LET lo == Min(i, Len(s))
        hi == Max(Min(j, Len(s)), lo)
    IN  SubSeq(s, lo + 1, hi)

SliceAssign_Append(s, i, j, b) == s \o b

SliceAssign(s, i, j, b) ==
    LET lo == Min(i, Len(s))
        hi == Max(Min(j, Len(s)), lo)
    IN  SubSeq(s, 1, lo) \o b \o SubSeq(s, hi + 1, Len(s))

\* ------------------------------------------------------------ stat modes
S_IFDIR == 16384
S_IFREG == 32768
S_IFMT_SHIFT == 4096

S_ISDIR(mode) == (mode \div S_IFMT_SHIFT) % 16 = S_IFDIR \div S_IFMT_SHIFT

Perm755 == 493
Perm555 == 365
Perm444 == 292
Perm666 == 438

\* ----------------------------------------------------------------- VNode
\* children is the OrderedDict: a sequence of (key, node) in insertion order
\* time is logical: every node is made at the instant of the build, the
\* calls come at that instant or later
BuildTime == 0

VNode(name, mode) ==
    [name |-> name, mode |-> mode,
     atime |-> BuildTime, mtime |-> BuildTime, ctime |-> BuildTime,
     children |-> <<>>, data |-> <<>>]

None ==
    [name |-> <<"None">>, mode |-> 0,
     atime |-> BuildTime, mtime |-> BuildTime, ctime |-> BuildTime,
     children |-> <<>>, data |-> <<>>]

RECURSIVE keys_Reversed(_)
keys_Reversed(children) ==
    IF children = <<>> THEN <<>>
    ELSE keys_Reversed(Tail(children)) \o <<Head(children).k>>

RECURSIVE keys(_)
keys(children) ==
    IF children = <<>> THEN <<>>
    ELSE <<Head(children).k>> \o keys(Tail(children))

HasKey(children, k) == \E i \in 1..Len(children) : children[i].k = k

\* dict.get(k): the node, None when absent
Get(children, k) ==
    IF HasKey(children, k)
    THEN children[CHOOSE i \in 1..Len(children) : children[i].k = k].v
    ELSE None

Put_Append(children, k, v) == Append(children, [k |-> k, v |-> v])

\* d[k] = v: replaces in place (position kept) or appends
Put(children, k, v) ==
    IF HasKey(children, k)
    THEN LET i == CHOOSE j \in 1..Len(children) : children[j].k = k
         IN  SubSeq(children, 1, i - 1) \o <<[k |-> k, v |-> v]>>
             \o SubSeq(children, i + 1, Len(children))
    ELSE Append(children, [k |-> k, v |-> v])

\* d.setdefault(k, v): the node now stored under k
setdefault(children, k, v) ==
    IF HasKey(children, k) THEN Get(children, k) ELSE v

stat(n) ==
    [st_mode  |-> n.mode,
     st_nlink |-> IF S_ISDIR(n.mode) THEN 2 ELSE 1,
     st_size  |-> Len(n.data),
     st_ctime |-> n.ctime,
     st_mtime |-> n.mtime,
     st_atime |-> n.atime]

\* ------------------------------------------------------------ build_tree
Slash == "/"
Dot == "."
BinSuffix == <<".", "bin">>
GradSuffix == <<".", "grad">>

File(name, mode, data) == [VNode(name, mode) EXCEPT !.data = data]

\* the descent through name.split(sep)[:-1] with setdefault, then the two
\* assignments parent.children[w.name] = w, parent.children[g.name] = g
RECURSIVE AddLeaf(_, _, _, _)
AddLeaf(parent, parts, leaf, buf) ==
    IF parts = <<>>
    THEN LET w == File(leaf \o BinSuffix, S_IFREG + Perm444, buf)
             g == File(leaf \o GradSuffix, S_IFREG + Perm666, <<>>)
         IN  [parent EXCEPT
                !.children = Put(Put(@, w.name, w), g.name, g)]
    ELSE LET part  == Head(parts)
             child == setdefault(parent.children, part,
                                 VNode(part, S_IFDIR + Perm755))
         IN  [parent EXCEPT
                !.children = Put(@, part,
                                 AddLeaf(child, Tail(parts), leaf, buf))]

Separator(source) == IF source.kind = "onnx" THEN Slash ELSE Dot

RECURSIVE Prod(_)
Prod(dims) == IF dims = <<>> THEN 1 ELSE Head(dims) * Prod(Tail(dims))

\* np.frombuffer(raw_data, dtype) raises ValueError when the stored bytes
\* are not a whole number of elements (line 77, outside any try)
Undecodable(source, item) ==
    /\ source.kind = "onnx"
    /\ item.data # <<>>
    /\ Len(item.data) % item.itemsize # 0

\* an initializer with no stored data is skipped (lines 88-90), and so is one
\* whose dims do not hold its elements (the ValueError of reshape, lines 93-98)
Skipped(source, item) ==
    /\ source.kind = "onnx"
    /\ \/ item.data = <<>>
       \/ /\ item.dims # <<>>
          /\ Prod(item.dims) # Len(item.data) \div item.itemsize

\* the exception leaves build_tree and MLFS.__init__
BuildRaises(source) ==
    \E i \in 1..Len(source.items) : Undecodable(source, source.items[i])

RECURSIVE AddItems(_, _, _)
AddItems(modeld, source, i) ==
    IF i > Len(source.items) THEN modeld
    ELSE LET item  == source.items[i]
             parts == split(item.name, Separator(source))
             next  == IF Skipped(source, item) THEN modeld
                      ELSE AddLeaf(modeld, SubSeq(parts, 1, Len(parts) - 1),
                                   parts[Len(parts)], item.data)
         IN  AddItems(next, source, i + 1)

VersionBytes == <<0, 6>>

build_tree(source, meta_str) ==
    LET sysd == [VNode(<<"sys">>, S_IFDIR + Perm555) EXCEPT
                   !.children =
                      <<[k |-> <<"version">>,
                         v |-> File(<<"version">>, S_IFREG + Perm444, VersionBytes)],
                        [k |-> <<"model_str">>,
                         v |-> File(<<"model_str">>, S_IFREG + Perm444, meta_str)]>>]
        modeld == AddItems(VNode(<<"model">>, S_IFDIR + Perm755), source, 1)
        actd == VNode(<<"activations">>, S_IFDIR + Perm755)
        ird == [VNode(<<"ir">>, S_IFDIR + Perm444) EXCEPT
                   !.children =
                      <<[k |-> <<"graph", ".", "txt">>,
                         v |-> VNode(<<"graph", ".", "txt">>, S_IFREG + Perm444)]>>]
        logd == [VNode(<<"logs">>, S_IFDIR + Perm444) EXCEPT
                   !.children =
                      <<[k |-> <<"fuse", ".", "log">>,
                         v |-> VNode(<<"fuse", ".", "log">>, S_IFREG + Perm444)]>>]
    IN  [VNode(<<"/">>, S_IFDIR + Perm755) EXCEPT
           !.children = <<[k |-> <<"sys">>, v |-> sysd],
                          [k |-> <<"model">>, v |-> modeld],
                          [k |-> <<"activations">>, v |-> actd],
                          [k |-> <<"ir">>, v |-> ird],
                          [k |-> <<"logs">>, v |-> logd]>>]

\* --------------------------------------------------------- path resolver
PathParts_KeepEmpty(path) == split(strip(path, Slash), Slash)

PathParts(path) == filterNone(split(strip(path, Slash), Slash))

RECURSIVE Walk_NoDirCheck(_, _)
Walk_NoDirCheck(node, parts) ==
    IF parts = <<>> THEN [err |-> "OK", node |-> node]
    ELSE IF Get(node.children, Head(parts)) = None
         THEN [err |-> "ENOENT", node |-> None]
         ELSE Walk_NoDirCheck(Get(node.children, Head(parts)), Tail(parts))

\* the loop of _resolve over the remaining parts, from node
RECURSIVE Walk(_, _)
Walk(node, parts) ==
    IF parts = <<>> THEN [err |-> "OK", node |-> node]
    ELSE \* n: the loop variable, holding the node this iteration starts at
         CHOOSE r \in
           { IF ~S_ISDIR(n.mode) THEN [err |-> "ENOTDIR", node |-> None]
             ELSE IF Get(n.children, Head(parts)) = None
                  THEN [err |-> "ENOENT", node |-> None]
                  ELSE Walk(Get(n.children, Head(parts)), Tail(parts))
             : n \in {node} } : TRUE

_resolve(root, path) == Walk(root, PathParts(path))

\* n.data = d on the node the parts lead to (the tree is owned top-down, no
\* node is shared, so the assignment through the reference is a rebuild of
\* the spine)
RECURSIVE SetData_Spine(_, _, _)
SetData_Spine(node, parts, d) ==
    IF parts = <<>> THEN [node EXCEPT !.data = d]
    ELSE [node EXCEPT
            !.data = d,
            !.children = Put(@, Head(parts),
                             SetData_Spine(Get(@, Head(parts)), Tail(parts), d))]

RECURSIVE SetData(_, _, _)
SetData(node, parts, d) ==
    IF parts = <<>> THEN [node EXCEPT !.data = d]
    ELSE [node EXCEPT
            !.children = Put(@, Head(parts),
                             SetData(Get(@, Head(parts)), Tail(parts), d))]

\* ------------------------------------------------------------- FUSE ops
\* root, allow_bin_write: the fields of MLFS; source: what it was built from;
\* last: the call in flight with its reply ("idle" between calls);
\* before: the tree as it was when that call was issued;
\* rwlock: the RLock of MLFS, its owner (0: nobody) and its recursion count;
\* thr: for each thread of the bridge, the callback it runs and where it is;
\* now: the clock _now() reads
VARIABLES root, allow_bin_write, source, last, before, rwlock, thr, now

vars == <<root, allow_bin_write, source, last, before, rwlock, thr, now>>

Threads == {1, 2}

Unlocked == [owner |-> 0, count |-> 0]

IdleThread ==
    [pc |-> "idle", op |-> "idle", path |-> <<>>, parts |-> <<>>, args |-> <<>>,
     err |-> "OK", ret |-> 0, tmp |-> <<>>, overlap |-> FALSE]

NoThreads == [t \in Threads |-> IdleThread]

O_TRUNC == 512

_is_bin(p) == startswith(p, <<"/", "model">>) /\ endswith(p, BinSuffix)
_is_grad_AnySuffix(p) == startswith(p, <<"/", "model">>)

_is_grad(p) == startswith(p, <<"/", "model">>) /\ endswith(p, GradSuffix)

\* the condition of lines 186 and 202
PositionalPath_GradOnly(allow, p) == _is_grad(p)

PositionalPath_NoFlag(allow, p) == _is_grad(p) \/ _is_bin(p)

PositionalPath(allow, p) == _is_grad(p) \/ (allow /\ _is_bin(p))

LogPath == <<"/", "logs", "/", "fuse", ".", "log">>

Fail(rt, e) == [root |-> rt, err |-> e, ret |-> 0]
Done(rt, v) == [root |-> rt, err |-> "OK", ret |-> v]

getattrOp(rt, p) ==
    LET r == _resolve(rt, p)
    IN  IF r.err # "OK" THEN Fail(rt, r.err) ELSE Done(rt, stat(r.node))

DotNames == << <<".">>, <<".", ".">> >>

readdirOp(rt, p) ==
    LET r == _resolve(rt, p)
    IN  IF r.err # "OK" THEN Fail(rt, r.err)
        ELSE IF ~S_ISDIR(r.node.mode) THEN Fail(rt, "ENOTDIR")
        ELSE Done(rt, DotNames \o keys(r.node.children))

readOp(rt, p, size, off) ==
    LET r == _resolve(rt, p)
    IN  IF r.err # "OK" THEN Fail(rt, r.err)
        ELSE Done(rt, Slice(r.node.data, off, off + size))

writeOp_LogPositional(rt, allow, p, buf, off) ==
    LET r == _resolve(rt, p)
    IN  IF r.err # "OK" THEN Fail(rt, r.err)
        ELSE IF PositionalPath(allow, p) \/ p = LogPath
        THEN Done(SetData(rt, PathParts(p),
                          SliceAssign(r.node.data, off, off + Len(buf), buf)),
                  Len(buf))
        ELSE Fail(rt, "EPERM")

writeOp(rt, allow, p, buf, off) ==
    LET r == _resolve(rt, p)
    IN  IF r.err # "OK" THEN Fail(rt, r.err)
        ELSE IF PositionalPath(allow, p)
        THEN Done(SetData(rt, PathParts(p),
                          SliceAssign(r.node.data, off, off + Len(buf), buf)),
                  Len(buf))
        ELSE IF p = LogPath
        THEN Done(SetData(rt, PathParts(p), r.node.data \o buf), Len(buf))
        ELSE Fail(rt, "EPERM")

truncateOp_KeepsData(rt, allow, p, length) ==
    LET r == _resolve(rt, p)
    IN  IF r.err # "OK" THEN Fail(rt, r.err)
        ELSE IF length = 0 /\ PositionalPath(allow, p)
        THEN Done(rt, 0)
        ELSE Fail(rt, "EPERM")

truncateOp(rt, allow, p, length) ==
    LET r == _resolve(rt, p)
    IN  IF r.err # "OK" THEN Fail(rt, r.err)
        ELSE IF length = 0 /\ PositionalPath(allow, p)
        THEN Done(SetData(rt, PathParts(p), <<>>), 0)
        ELSE Fail(rt, "EPERM")

HasTrunc(flags) == (flags \div O_TRUNC) % 2 = 1

openOp_IgnoresFlag(rt, allow, p, flags) == Done(rt, 0)

openOp(rt, allow, p, flags) ==
    IF HasTrunc(flags)
    THEN LET t == truncateOp(rt, allow, p, 0)
         IN  IF t.err # "OK" THEN t ELSE Done(t.root, 0)
    ELSE Done(rt, 0)

\* ------------------------------------------------------- inputs of a run
\* an initializer: its name, its stored bytes, the size of an element of its
\* data_type and its dims (none: no reshape)
Initializer(name, data, itemsize, dims) ==
    [name |-> name, data |-> data, itemsize |-> itemsize, dims |-> dims]

\* a tensor of single bytes without dims
Item(name, data) == Initializer(name, data, 1, <<>>)

TorchWeight ==
    [kind |-> "torch",
     items |-> <<Item(<<"layer", ".", "0", ".", "weight">>, <<1>>)>>]

OnnxGradDir ==
    [kind |-> "onnx",
     items |-> <<Item(<<"w", ".", "grad", "/", "x">>, <<1>>)>>]

TorchSources ==
    { TorchWeight,
      [kind |-> "torch",
       items |-> <<Item(<<"a", ".", "w">>, <<1>>), Item(<<"a", ".", "b">>, <<0>>)>>],
      [kind |-> "torch",
       items |-> <<Item(<<"a", ".", ".", "w">>, <<1>>)>>],
      [kind |-> "torch",
       items |-> <<Item(<<"l", ".", "10", ".", "w">>, <<1>>),
                   Item(<<"l", ".", "2", ".", "w">>, <<0>>),
                   Item(<<"l", ".", "10", ".", "b">>, <<1, 0>>)>>] }

OnnxSources ==
    { OnnxGradDir,
      [kind |-> "onnx",
       items |-> <<Item(<<"a", "/", "w">>, <<1>>)>>],
      [kind |-> "onnx",
       items |-> <<Item(<<"w", ".", "bin", "/", "x">>, <<1>>), Item(<<"w">>, <<0>>)>>],
      [kind |-> "onnx",
       items |-> <<Item(<<"w">>, <<0>>), Item(<<"w", ".", "bin", "/", "x">>, <<1>>)>>],
      [kind |-> "onnx",
       items |-> <<Item(<<"/", "w">>, <<1>>)>>],
      [kind |-> "onnx",
       items |-> <<Item(<<"w", ".", "bin", "/", "x">>, <<1>>),
                   Item(<<"w", ".", "bin", "/", "y">>, <<0>>),
                   Item(<<"w">>, <<1>>)>>],
      [kind |-> "onnx",
       items |-> <<Item(<<"w">>, <<>>), Item(<<"b">>, <<1>>)>>] }

Sources == TorchSources \cup OnnxSources

\* the mounts the full engine is run on: (source, --unsafe-write)
Mounts ==
    { <<TorchWeight, FALSE>>, <<TorchWeight, TRUE>>, <<OnnxGradDir, FALSE>> }

\* the summary text MLFS.__init__ hands to build_tree, as bytes
MetaStr(src) == IF src.kind = "onnx" THEN <<1>> ELSE <<Len(src.items)>>

\* every chain of keys that leads from node to a descendant, node included
RECURSIVE KeyPaths(_)
KeyPaths(node) ==
    {<<>>} \cup
    UNION { { <<node.children[i].k>> \o kp : kp \in KeyPaths(node.children[i].v) }
            : i \in 1..Len(node.children) }

RECURSIVE Join(_)
Join(ks) ==
    IF ks = <<>> THEN <<>> ELSE <<Slash>> \o Head(ks) \o Join(Tail(ks))

\* the absolute path the bridge sends for a chain of keys
Canon(ks) == IF ks = <<>> THEN <<Slash>> ELSE Join(ks)

\* other spellings of a path, and paths that lead nowhere
Spellings(c) == { c \o <<Slash>>, <<Slash>> \o c }

Beyond(c) == c \o <<Slash, "extra">>

NoSuchPath == <<"/", "model", "/", "does", "/", "not", "/", "exist">>

IsFileChain(rt, ks) ==
    LET r == Walk(rt, ks) IN r.err = "OK" /\ ~S_ISDIR(r.node.mode)

\* the files the write policy names: those under model, and the log
PolicyChain(rt, ks) ==
    IsFileChain(rt, ks) /\ Head(ks) \in {<<"model">>, <<"logs">>}

\* the paths a run may pass: every node under its absolute path, every
\* file of the write policy also under its other spellings and with one
\* more segment after it
Paths(rt) ==
    LET chains == KeyPaths(rt)
        files  == { Canon(ks) : ks \in { c \in chains : PolicyChain(rt, c) } }
    IN  { Canon(ks) : ks \in chains }
        \cup UNION { Spellings(f) : f \in files }
        \cup { Beyond(f) : f \in files }
        \cup { NoSuchPath }

\* the absolute paths of the nodes, and of those under model and logs
NodePaths(rt) == { Canon(ks) : ks \in KeyPaths(rt) }

PolicyPaths(rt) ==
    { Canon(ks) : ks \in { c \in KeyPaths(rt) :
                             c # <<>> /\ Head(c) \in {<<"model">>, <<"logs">>} } }

RECURSIVE SeqsUpTo(_, _)
SeqsUpTo(S, n) ==
    IF n = 0 THEN {<<>>}
    ELSE LET shorter == SeqsUpTo(S, n - 1)
         IN  shorter \cup { Append(b, x) : b \in { t \in shorter : Len(t) = n - 1 }, x \in S }

Bufs == SeqsUpTo(Byte, MaxBuf)
Offsets == 0..MaxOff
Sizes == 0..MaxBuf
Lengths == {0, 1}
Flags == {0, 1, O_TRUNC + 1}

\* the arguments a run passes with a path: every buffer and offset on the
\* absolute paths under model and logs, every size and offset on the
\* absolute path of any node, and the extremes on the remaining paths
ProbeBufs == { <<>>, <<1>> }
ProbeOffsets == {0, MaxOff}
ProbeSizes == {0, MaxBuf}

WriteBufs(rt, p) == IF p \in PolicyPaths(rt) THEN Bufs ELSE ProbeBufs
WriteOffsets(rt, p) == IF p \in PolicyPaths(rt) THEN Offsets ELSE ProbeOffsets
ReadSizes(rt, p) == IF p \in NodePaths(rt) THEN Sizes ELSE ProbeSizes
ReadOffsets(rt, p) == IF p \in NodePaths(rt) THEN Offsets ELSE ProbeOffsets

Idle == [op |-> "idle", path |-> <<>>, args |-> <<>>, err |-> "OK", ret |-> 0]

Reply(op, p, args, r) ==
    [op |-> op, path |-> p, args |-> args, err |-> r.err, ret |-> r.ret]

\* the bytes held by the whole tree
RECURSIVE SumLens(_, _)
SumLens(children, i) ==
    IF i > Len(children) THEN 0
    ELSE Len(children[i].v.data) + SumLens(children[i].v.children, 1)
         + SumLens(children, i + 1)

TotalPayload(node) == Len(node.data) + SumLens(node.children, 1)

\* what MLFS.__init__ builds for a source
Built(src) == build_tree(src, MetaStr(src))

BuiltTable == [src \in Sources |-> Built(src)]
PathTable == [src \in Sources |-> Paths(Built(src))]
BuiltSize == [src \in Sources |-> TotalPayload(Built(src))]

Init ==
    /\ \E m \in Mounts : source = m[1] /\ allow_bin_write = m[2]
    /\ root = Built(source)
    /\ last = Idle
    /\ before = root
    /\ rwlock = Unlocked
    /\ now = BuildTime
    /\ thr = NoThreads

Call(op, p, args, r) ==
    /\ root' = r.root
    /\ before' = root
    /\ last' = Reply(op, p, args, r)
    /\ UNCHANGED <<allow_bin_write, source, rwlock, thr, now>>

getattr ==
    /\ last.op = "idle"
    /\ \E p \in PathTable[source] :
         \E r \in {getattrOp(root, p)} : Call("getattr", p, <<>>, r)

readdir ==
    /\ last.op = "idle"
    /\ \E p \in PathTable[source] :
         \E r \in {readdirOp(root, p)} : Call("readdir", p, <<>>, r)

read ==
    /\ last.op = "idle"
    /\ \E p \in PathTable[source] :
         \E size \in ReadSizes(root, p), off \in ReadOffsets(root, p) :
            \E r \in {readOp(root, p, size, off)} :
               Call("read", p, <<size, off>>, r)

\* a write is issued only while the tree stays within MaxGrow bytes of its
\* size at build time
write ==
    /\ last.op = "idle"
    /\ \E p \in PathTable[source] :
         \E buf \in WriteBufs(root, p), off \in WriteOffsets(root, p) :
            \E r \in {writeOp(root, allow_bin_write, p, buf, off)} :
               /\ TotalPayload(r.root) <= BuiltSize[source] + MaxGrow
               /\ Call("write", p, <<buf, off>>, r)

open ==
    /\ last.op = "idle"
    /\ \E p \in PathTable[source], flags \in Flags :
         \E r \in {openOp(root, allow_bin_write, p, flags)} :
            Call("open", p, <<flags>>, r)

truncate ==
    /\ last.op = "idle"
    /\ \E p \in PathTable[source], length \in Lengths :
         \E r \in {truncateOp(root, allow_bin_write, p, length)} :
            Call("truncate", p, <<length>>, r)

flush ==
    /\ last.op = "idle"
    /\ \E p \in PathTable[source] : Call("flush", p, <<>>, Done(root, 0))

release ==
    /\ last.op = "idle"
    /\ \E p \in PathTable[source] : Call("release", p, <<>>, Done(root, 0))

\* the bridge takes the reply; the next request may arrive
Return ==
    /\ last.op # "idle"
    /\ last' = Idle
    /\ before' = root
    /\ UNCHANGED <<root, allow_bin_write, source, rwlock, thr, now>>

Next ==
    \/ write
    \/ truncate
    \/ open
    \/ getattr
    \/ readdir
    \/ read
    \/ flush
    \/ release
    \/ Return

Spec == Init /\ [][Next]_vars

\* the engine with the clock: time passes between two calls
MaxTime == 2

Tick ==
    /\ last.op = "idle"
    /\ now < MaxTime
    /\ now' = now + 1
    /\ UNCHANGED <<root, allow_bin_write, source, last, before, rwlock, thr>>

NextClock ==
    \/ write
    \/ truncate
    \/ open
    \/ getattr
    \/ readdir
    \/ read
    \/ flush
    \/ release
    \/ Return
    \/ Tick

SpecClock == Init /\ [][NextClock]_vars

\* ---------------------------------------------- the build of a graph
\* build_tree on graphs of up to MaxItems initializers, each one of: two
\* well-formed ones, one with no stored data, one whose bytes are not a
\* whole number of elements, one whose dims do not hold its elements
MaxItems == 3

Initializers ==
    { Initializer(<<"a">>, <<1>>, 1, <<1>>),
      Initializer(<<"b">>, <<1, 0>>, 2, <<>>),
      Initializer(<<"c">>, <<>>, 1, <<>>),
      Initializer(<<"d">>, <<1>>, 2, <<>>),
      Initializer(<<"e">>, <<1, 0>>, 1, <<3>>) }

Graphs ==
    { [kind |-> "onnx", items |-> its] :
        its \in { t \in SeqsUpTo(Initializers, MaxItems) : t # <<>> } }

InitDecode ==
    /\ source \in Graphs
    /\ allow_bin_write = FALSE
    /\ root = None
    /\ last = Idle
    /\ before = root
    /\ rwlock = Unlocked
    /\ thr = NoThreads
    /\ now = BuildTime

\* MLFS.__init__ calls build_tree once
build ==
    /\ last.op = "idle"
    /\ root = None
    /\ \E r \in { IF BuildRaises(source) THEN Fail(root, "ValueError")
                   ELSE Done(build_tree(source, MetaStr(source)), 0) } :
          Call("build_tree", <<>>, <<>>, r)

NextDecode ==
    \/ build
    \/ Return

SpecDecode == InitDecode /\ [][NextDecode]_vars

\* the tree as build_tree leaves it, for every source, under the calls that
\* only look at it
InitBuild ==
    /\ source \in Sources
    /\ allow_bin_write \in BOOLEAN
    /\ root = Built(source)
    /\ last = Idle
    /\ before = root
    /\ rwlock = Unlocked
    /\ now = BuildTime
    /\ thr = NoThreads

NextBuild ==
    \/ getattr
    \/ readdir
    \/ read
    \/ Return

SpecBuild == InitBuild /\ [][NextBuild]_vars

\* ------------------------------------------------ the resolver alone
\* _resolve applied to the spellings of a sequence of segments: lead
\* slashes in front, mid slashes between two segments, trail slashes behind
MaxSlash == 2

Slashes(n) == [i \in 1..n |-> Slash]

RECURSIVE JoinWith(_, _)
JoinWith(ks, sep) ==
    IF Len(ks) = 1 THEN Head(ks)
    ELSE Head(ks) \o sep \o JoinWith(Tail(ks), sep)

Spell(ks, lead, mid, trail) ==
    Slashes(lead)
    \o (IF ks = <<>> THEN <<>> ELSE JoinWith(ks, Slashes(mid)))
    \o Slashes(trail)

IsSegment(k) == k # <<>> /\ \A i \in 1..Len(k) : k[i] # Slash

\* the sequences of segments resolved: those of every node that has one,
\* each also with one more segment, and one that names nothing
SegmentChains(rt) ==
    LET chains == { ks \in KeyPaths(rt) : \A i \in 1..Len(ks) : IsSegment(ks[i]) }
    IN  chains \cup { Append(ks, <<"extra">>) : ks \in chains }
               \cup { << <<"model">>, <<"does">>, <<"not">>, <<"exist">> >> }

resolve ==
    /\ last.op = "idle"
    /\ \E ks \in SegmentChains(root) :
         \E lead \in 0..MaxSlash, mid \in 1..MaxSlash, trail \in 0..MaxSlash :
            \E r \in {_resolve(root, Spell(ks, lead, mid, trail))} :
               Call("_resolve", Spell(ks, lead, mid, trail), <<ks>>,
                    [root |-> root, err |-> r.err, ret |-> r.node])

NextResolve ==
    \/ resolve
    \/ Return

SpecResolve == InitBuild /\ [][NextResolve]_vars

\* ------------------------------------------------ two threads, one lock
\* Each thread of the bridge runs one callback: it enters the with-block
\* (acquires rwlock), runs the body in the steps below, leaves the block
\* (releases rwlock, also when the body raised) and returns.  The copy of
\* read and the += of the log write are split into their loads and stores.
GradPath ==
    Canon(<< <<"model">>, <<"layer">>, <<"0">>, <<"weight", ".", "grad">> >>)

ThreadPaths == { GradPath, LogPath, Canon(<< <<"model">> >>), NoSuchPath }

\* the buffers the threads write: all ones, so that they differ from the
\* zeros the files hold at the start
ThreadBufs == { b \in Bufs : b # <<>> /\ \A i \in 1..Len(b) : b[i] = 1 }

\* a request: the callback, its path with the parts _resolve splits it into,
\* and its other arguments
ThreadCall(op, p, args) ==
    [op |-> op, path |-> p, parts |-> PathParts(p), args |-> args]

ThreadCalls ==
    { ThreadCall("getattr", p, <<>>) : p \in ThreadPaths }
    \cup { ThreadCall("readdir", p, <<>>) : p \in ThreadPaths }
    \cup { ThreadCall("read", p, <<MaxBuf, 0>>) : p \in ThreadPaths }
    \cup { ThreadCall("write", p, <<b, 0>>) : p \in ThreadPaths, b \in ThreadBufs }
    \cup { ThreadCall("truncate", p, <<n>>) : p \in ThreadPaths, n \in Lengths }

\* the trees the threads start on: the built one, and the one two earlier
\* writes leave, with zeros in the gradient file and in the log
ThreadTrees ==
    LET built == Built(TorchWeight)
        grad  == writeOp(built, FALSE, GradPath, <<0, 0>>, 0).root
    IN  { built, writeOp(grad, FALSE, LogPath, <<0>>, 0).root }

InitThreads ==
    /\ source = TorchWeight
    /\ allow_bin_write = FALSE
    /\ root \in ThreadTrees
    /\ last = Idle
    /\ before = root
    /\ rwlock = Unlocked
    /\ now = BuildTime
    /\ thr = NoThreads

Other(t) == CHOOSE u \in Threads : u # t

\* RLock.acquire does not block when the lock is free or owned by the caller
CanAcquire_Always(lock, t) == TRUE

CanAcquire(lock, t) == lock.owner \in {0, t}

\* RLock.release, as the with-block calls it on normal and exceptional exit
ExitLock_HeldOnError(lock, err) ==
    IF err = "OK" THEN Unlocked ELSE lock

ExitLock(lock, err) ==
    LET c == lock.count - 1
    IN  [owner |-> IF c = 0 THEN 0 ELSE lock.owner, count |-> c]

\* the body up to its first assignment or its return: resolve, then the
\* checks of the callback
AfterResolve(rt, allow, th) ==
    LET r == Walk(rt, th.parts)
        raise(e) == [th EXCEPT !.pc = "exit", !.err = e]
        return(v) == [th EXCEPT !.pc = "exit", !.ret = v]
        goto(l) == [th EXCEPT !.pc = l]
    IN  IF r.err # "OK" THEN raise(r.err)
        ELSE CASE th.op = "getattr" -> return(stat(r.node))
               [] th.op = "readdir" ->
                    IF ~S_ISDIR(r.node.mode) THEN raise("ENOTDIR")
                    ELSE return(DotNames \o keys(r.node.children))
               [] th.op = "read" -> goto("copy")
               [] th.op = "write" ->
                    IF PositionalPath(allow, th.path) THEN goto("assign")
                    ELSE IF th.path = LogPath THEN goto("append")
                    ELSE raise("EPERM")
               [] th.op = "truncate" ->
                    IF th.args[1] = 0 /\ PositionalPath(allow, th.path)
                    THEN goto("assign")
                    ELSE raise("EPERM")

\* the payload of the node the thread resolved, as it is now
Payload(th) == Walk(root, th.parts).node.data

Moves(t, th) ==
    /\ thr' = [thr EXCEPT ![t] = th]
    /\ UNCHANGED <<root, allow_bin_write, source, last, before, rwlock, now>>

Stores(t, th, d) ==
    /\ thr' = [thr EXCEPT ![t] = th]
    /\ root' = SetData(root, th.parts, d)
    /\ UNCHANGED <<allow_bin_write, source, last, before, rwlock, now>>

\* a request arrives at thread t
Issue(t) ==
    /\ thr[t].pc = "idle"
    /\ \E c \in ThreadCalls :
         Moves(t, [IdleThread EXCEPT
                     !.pc = "call", !.op = c.op, !.path = c.path,
                     !.parts = c.parts, !.args = c.args,
                     !.overlap = thr[Other(t)].pc \notin {"idle", "done"}])

\* with self.rwlock: __enter__
Enter(t) ==
    /\ thr[t].pc = "call"
    /\ CanAcquire(rwlock, t)
    /\ rwlock' = [owner |-> t, count |-> rwlock.count + 1]
    /\ thr' = [thr EXCEPT ![t].pc = "resolve"]
    /\ UNCHANGED <<root, allow_bin_write, source, last, before, now>>

Resolve(t) ==
    /\ thr[t].pc = "resolve"
    /\ Moves(t, AfterResolve(root, allow_bin_write, thr[t]))

\* bytes(buf[off: off+size]), one byte at a time
Copy(t) ==
    /\ thr[t].pc = "copy"
    /\ LET th == thr[t]
           d  == Payload(th)
           at == th.args[2] + Len(th.tmp)
       IN  IF Len(th.tmp) < th.args[1] /\ at < Len(d)
           THEN Moves(t, [th EXCEPT !.tmp = Append(@, d[at + 1])])
           ELSE Moves(t, [th EXCEPT !.pc = "exit", !.ret = th.tmp])

\* n.data[off:off+len(buf)] = buf of write, n.data = bytearray() of truncate
Assign(t) ==
    /\ thr[t].pc = "assign"
    /\ LET th == thr[t]
       IN  IF th.op = "write"
           THEN Stores(t, [th EXCEPT !.pc = "exit", !.ret = Len(th.args[1])],
                       SliceAssign(Payload(th), th.args[2],
                                   th.args[2] + Len(th.args[1]), th.args[1]))
           ELSE Stores(t, [th EXCEPT !.pc = "exit", !.ret = 0], <<>>)

\* n.data += buf: the load and the concatenation ...
Concat(t) ==
    /\ thr[t].pc = "append"
    /\ Moves(t, [thr[t] EXCEPT !.pc = "store", !.tmp = Payload(thr[t]) \o thr[t].args[1]])

\* ... and the store
Store(t) ==
    /\ thr[t].pc = "store"
    /\ Stores(t, [thr[t] EXCEPT !.pc = "exit", !.ret = Len(thr[t].args[1])],
              thr[t].tmp)

\* with self.rwlock: __exit__, then the reply leaves
Exit(t) ==
    /\ thr[t].pc = "exit"
    /\ rwlock' = ExitLock(rwlock, thr[t].err)
    /\ thr' = [thr EXCEPT ![t].pc = "done"]
    /\ UNCHANGED <<root, allow_bin_write, source, last, before, now>>

ThreadIssue == \E t \in Threads : Issue(t)
ThreadEnter == \E t \in Threads : Enter(t)
ThreadResolve == \E t \in Threads : Resolve(t)
ThreadCopy == \E t \in Threads : Copy(t)
ThreadAssign == \E t \in Threads : Assign(t)
ThreadConcat == \E t \in Threads : Concat(t)
ThreadStore == \E t \in Threads : Store(t)
ThreadExit == \E t \in Threads : Exit(t)

NextThreads ==
    \/ ThreadIssue
    \/ ThreadEnter
    \/ ThreadResolve
    \/ ThreadCopy
    \/ ThreadAssign
    \/ ThreadConcat
    \/ ThreadStore
    \/ ThreadExit

SpecThreads == InitThreads /\ [][NextThreads]_vars

\* a thread that can take a step of its callback eventually takes one
Run(t) ==
    Enter(t) \/ Resolve(t) \/ Copy(t) \/ Assign(t) \/ Concat(t) \/ Store(t) \/ Exit(t)

SpecThreadsFair == SpecThreads /\ \A t \in Threads : WF_vars(Run(t))

\* ===================================================================
\* Properties.  In a state with a reply in flight, last is the call and
\* its reply, before the tree the call met and root the tree it left.
\* ===================================================================
Args == last.args
Met == _resolve(before, last.path)
Left == _resolve(root, last.path)

\* the node a chain of keys leads to, by dictionary lookups alone
RECURSIVE Descend(_, _)
Descend(node, ks) ==
    IF ks = <<>> THEN node
    ELSE IF node = None THEN None
    ELSE Descend(Get(node.children, Head(ks)), Tail(ks))

UnderModel(ks) == Len(ks) >= 2 /\ ks[1] = <<"model">>

IsWeightNode(n, ks) ==
    UnderModel(ks) /\ ~S_ISDIR(n.mode) /\ endswith(n.name, BinSuffix)

IsGradNode(n, ks) ==
    UnderModel(ks) /\ ~S_ISDIR(n.mode) /\ endswith(n.name, GradSuffix)

IsLogNode(n, ks) == ks = << <<"logs">>, <<"fuse", ".", "log">> >>

\* the path resolves, in tree rt, to a weight-snapshot file / a gradient file
WeightFile(rt, p) ==
    LET r == _resolve(rt, p) IN r.err = "OK" /\ IsWeightNode(r.node, PathParts(p))

GradFile(rt, p) ==
    LET r == _resolve(rt, p) IN r.err = "OK" /\ IsGradNode(r.node, PathParts(p))

\* the spelling the bridge uses: one slash before every segment
Absolute(p) == p = Canon(PathParts(p))

\* C1: in safe mode every write and every non-zero truncate addressed to a
\* weight-snapshot file, under any spelling of its path, fails with
\* PermissionDenied and leaves the file's payload and size as they were.
C1_SafeWeightWriteDenied ==
    ( /\ ~allow_bin_write
      /\ \/ last.op = "write"
         \/ last.op = "truncate" /\ Args[1] # 0
      /\ WeightFile(before, last.path) )
    => /\ last.err = "EPERM"
       /\ Left.node.data = Met.node.data
       /\ stat(Left.node).st_size = stat(Met.node).st_size

C1_Witness ==
    /\ ~allow_bin_write
    /\ last.op = "write"
    /\ WeightFile(before, last.path)
    /\ Args[1] # <<>>
    /\ last.err = "EPERM"

\* the chains of keys that lead to the weight-snapshot files of a tree
WeightChains(rt) ==
    { c \in KeyPaths(rt) : IsWeightNode(Descend(rt, c), c) }

\* the weight-snapshot files each source is built with
BuiltWeights == [src \in Sources |-> WeightChains(Built(src))]

\* C2: in safe mode, after any sequence of calls on any paths, every
\* weight-snapshot file of the tree holds the payload it was built with.
C2_SafeSnapshotsImmutable ==
    ~allow_bin_write =>
        \A c \in BuiltWeights[source] :
            /\ IsWeightNode(Descend(root, c), c)
            /\ Descend(root, c).data = Descend(BuiltTable[source], c).data

C2_Witness ==
    /\ ~allow_bin_write
    /\ last.op = "open"
    /\ HasTrunc(Args[1])
    /\ WeightFile(before, last.path)
    /\ before # BuiltTable[source]

\* the path the round trip resolves for a qualified name
RoundTripPath(src, name) ==
    LET parts == split(name, Separator(src))
    IN  Canon(<< <<"model">> >> \o SubSeq(parts, 1, Len(parts) - 1)
              \o << parts[Len(parts)] \o BinSuffix >>)

\* C3: for every name the builder inserted, resolving
\* model/<segments as directories>/<last segment>.bin in the built tree
\* gives a file whose payload is the source buffer.
C3_RoundTrip ==
    \A i \in 1..Len(source.items) :
        ~Skipped(source, source.items[i]) =>
            LET r == _resolve(root, RoundTripPath(source, source.items[i].name))
            IN  /\ r.err = "OK"
                /\ ~S_ISDIR(r.node.mode)
                /\ r.node.data = source.items[i].data

\* C4: a write at offset 0 of buffer B to a gradient file succeeds, returns
\* len(B), and a read of len(B) bytes at offset 0 right after it returns B.
C4_GradWriteReadBack ==
    ( /\ last.op = "write"
      /\ GradFile(before, last.path)
      /\ Absolute(last.path)
      /\ Args[2] = 0 )
    => /\ last.err = "OK"
       /\ last.ret = Len(Args[1])
       /\ readOp(root, last.path, Len(Args[1]), 0) = Done(root, Args[1])

C4_Witness ==
    /\ last.op = "write"
    /\ GradFile(before, last.path)
    /\ Absolute(last.path)
    /\ Args[2] = 0
    /\ Len(Args[1]) = 1
    /\ Len(Met.node.data) = 2
    /\ Met.node.data[1] # Args[1][1]
    /\ last.err = "OK"

\* C5: a successful write of B (length n) at offset o to a gradient file, or
\* to a weight file in unsafe mode, with payload P leaves a payload of length
\* max(len(P), o+n) that holds B at [o, o+n), P elsewhere, and zeros in the
\* gap [len(P), o) when o > len(P).
C5_PositionalWrite ==
    ( /\ last.op = "write"
      /\ last.err = "OK"
      /\ \/ GradFile(before, last.path)
         \/ allow_bin_write /\ WeightFile(before, last.path) )
    => LET P == Met.node.data
           N == Left.node.data
           B == Args[1]
           o == Args[2]
           n == Len(B)
       IN  /\ Len(N) = Max(Len(P), o + n)
           /\ \A i \in 1..Len(N) :
                IF i > o /\ i <= o + n THEN N[i] = B[i - o]
                ELSE IF i <= Len(P) THEN N[i] = P[i]
                ELSE N[i] = 0

\* C6: a write to /logs/fuse.log succeeds whatever offset it asks for,
\* returns len(b), and leaves the content it met followed by b; so k writes
\* leave the initial content followed by b1 ... bk in call order.
C6_LogAppend ==
    (last.op = "write" /\ last.path = LogPath)
    => /\ last.err = "OK"
       /\ last.ret = Len(Args[1])
       /\ Left.node.data = Met.node.data \o Args[1]

C6_Witness ==
    /\ last.op = "write"
    /\ last.path = LogPath
    /\ Met.node.data # <<>>
    /\ Args[1] # <<>>
    /\ Args[2] = 0
    /\ last.err = "OK"

\* C7: a truncate to length 0 of a gradient file succeeds; right after it
\* the attributes report size 0 and every read returns the empty string.
C7_GradTruncateZero ==
    ( /\ last.op = "truncate"
      /\ Args[1] = 0
      /\ GradFile(before, last.path)
      /\ Absolute(last.path) )
    => /\ last.err = "OK"
       /\ getattrOp(root, last.path).err = "OK"
       /\ getattrOp(root, last.path).ret.st_size = 0
       /\ \A size \in Sizes, off \in Offsets :
            readOp(root, last.path, size, off) = Done(root, <<>>)

C7_Witness ==
    /\ last.op = "truncate"
    /\ Args[1] = 0
    /\ GradFile(before, last.path)
    /\ Absolute(last.path)
    /\ Met.node.data # <<>>
    /\ last.err = "OK"

\* C8: on an existing path a truncate to a non-zero length fails with
\* PermissionDenied and changes nothing; a truncate to 0 succeeds only on a
\* gradient file or, in unsafe mode, a weight file, and fails with
\* PermissionDenied on every other node.
C8_TruncatePolicy ==
    (last.op = "truncate" /\ Met.err = "OK")
    => IF Args[1] # 0
       THEN last.err = "EPERM" /\ root = before
       ELSE \/ GradFile(before, last.path)
            \/ allow_bin_write /\ WeightFile(before, last.path)
            \/ last.err = "EPERM"

\* a directory, or a file that is no gradient file, weight file or log file
OtherNode(n, ks) ==
    \/ S_ISDIR(n.mode)
    \/ ~IsGradNode(n, ks) /\ ~IsWeightNode(n, ks) /\ ~IsLogNode(n, ks)

OtherPayloads(rt) ==
    { <<ks, Descend(rt, ks).data>> :
        ks \in { c \in KeyPaths(rt) : OtherNode(Descend(rt, c), c) } }

\* C9: on every directory and every file outside the three writable roles,
\* each write and each truncate fails with PermissionDenied, in both modes,
\* and these nodes keep the payload they were built with.
C9_OthersReadOnly ==
    /\ ( /\ last.op \in {"write", "truncate"}
         /\ Met.err = "OK"
         /\ OtherNode(Met.node, PathParts(last.path)) )
       => last.err = "EPERM" /\ root = before
    /\ OtherPayloads(root) = OtherPayloads(BuiltTable[source])

\* what the resolver owes for a sequence of segments: NotADirectory when a
\* segment before the last addresses a file, NotFound when a segment has no
\* child of that name in the directory reached so far
\* the nodes the segments lead through by dictionary lookups, from node on:
\* Along(node, ks)[j + 1] is what the first j segments lead to
RECURSIVE Along(_, _)
Along(node, ks) ==
    IF ks = <<>> THEN <<node>>
    ELSE <<node>> \o Along(Get(node.children, Head(ks)), Tail(ks))

DirsUpTo(at, i) ==
    \A j \in 1..i : at[j] # None /\ S_ISDIR(at[j].mode)

ExpectedErr(rt, ks) ==
    LET at == Along(rt, ks)
    IN  IF \E i \in 1..(Len(ks) - 1) :
              DirsUpTo(at, i) /\ at[i + 1] # None /\ ~S_ISDIR(at[i + 1].mode)
        THEN "ENOTDIR"
        ELSE IF \E i \in 1..Len(ks) : DirsUpTo(at, i) /\ at[i + 1] = None
        THEN "ENOENT"
        ELSE "OK"

\* C10: resolving fails with NotADirectory or NotFound exactly in these two
\* cases and otherwise returns the addressed node; attributes, list, read,
\* write and truncate fail with the same error on such a path.
C10_ResolveErrors ==
    last.op # "idle" =>
        LET ks == PathParts(last.path)
            e  == ExpectedErr(before, ks)
        IN  /\ Met.err = e
            /\ e = "OK" => Met.node = Along(before, ks)[Len(ks) + 1]
            /\ (e # "OK" /\ last.op \in {"getattr", "readdir", "read", "write", "truncate"})
                  => last.err = e

C10_Witness ==
    /\ last.op = "write"
    /\ last.path = Beyond(Canon(<< <<"model">>, <<"layer">>, <<"0">>,
                                   <<"weight", ".", "bin">> >>))
    /\ last.err = "ENOTDIR"

\* C11: a read of size bytes at offset off on a file returns the bytes of
\* the payload at positions [off, off + size) that exist: min(size, len - off)
\* of them when off < len, none when off >= len; the payload is unchanged.
C11_ReadSlice ==
    ( /\ last.op = "read"
      /\ Met.err = "OK"
      /\ ~S_ISDIR(Met.node.mode) )
    => LET P    == Met.node.data
           size == Args[1]
           off  == Args[2]
           n    == IF off < Len(P) THEN Min(size, Len(P) - off) ELSE 0
       IN  /\ last.err = "OK"
           /\ Len(last.ret) = n
           /\ \A i \in 1..n : last.ret[i] = P[off + i]
           /\ root = before

C11_Witness ==
    /\ last.op = "read"
    /\ Met.err = "OK"
    /\ ~S_ISDIR(Met.node.mode)
    /\ Len(Met.node.data) = 2
    /\ Args = <<2, 1>>
    /\ last.ret = <<Met.node.data[2]>>

\* the chain of keys of the directory a qualified name's files are put in
DirChain(src, name) ==
    LET parts == split(name, Separator(src))
    IN  << <<"model">> >> \o SubSeq(parts, 1, Len(parts) - 1)

LeafOf(src, name) ==
    LET parts == split(name, Separator(src)) IN parts[Len(parts)]

\* C12: in the built tree every qualified name has, in the directory of its
\* non-final segments, the file <leaf>.bin (size of the buffer, mode 0444)
\* immediately followed by the file <leaf>.grad (size 0, mode 0666); for the
\* mapping {layer.0.weight} listing model/layer/0 gives
\* ., .., weight.bin, weight.grad.
C12_BuildShape ==
    /\ \A i \in 1..Len(source.items) :
          ~Skipped(source, source.items[i]) =>
            LET item == source.items[i]
                d    == Descend(BuiltTable[source], DirChain(source, item.name))
                leaf == LeafOf(source, item.name)
            IN  /\ d # None
                /\ S_ISDIR(d.mode)
                /\ \E j \in 1..(Len(d.children) - 1) :
                      LET w == d.children[j]
                          g == d.children[j + 1]
                      IN  /\ w.k = leaf \o BinSuffix
                          /\ w.v.mode = S_IFREG + Perm444
                          /\ w.v.children = <<>>
                          /\ stat(w.v).st_size = Len(item.data)
                          /\ g.k = leaf \o GradSuffix
                          /\ g.v.mode = S_IFREG + Perm666
                          /\ g.v.children = <<>>
                          /\ stat(g.v).st_size = 0
    /\ source = TorchWeight =>
          readdirOp(BuiltTable[source], Canon(<< <<"model">>, <<"layer">>, <<"0">> >>))
             = Done(BuiltTable[source],
                    DotNames \o << <<"weight", ".", "bin">>, <<"weight", ".", "grad">> >>)

\* the names of the immediate children of a node, in the order of its map
ChildNames(n) == [i \in 1..Len(n.children) |-> n.children[i].v.name]

Listing(n) == DotNames \o ChildNames(n)

\* the listing of every directory of a tree, by its chain of keys
Listings(rt) ==
    { <<c, Listing(Descend(rt, c))>> :
        c \in { k \in KeyPaths(rt) : S_ISDIR(Descend(rt, k).mode) } }

\* the order in which build_tree puts the children of the root
RootOrder == << <<"sys">>, <<"model">>, <<"activations">>, <<"ir">>, <<"logs">> >>

\* C13: list on a directory returns ., .. and then the names of its
\* immediate children in insertion order; on a file it fails with
\* NotADirectory; a second list right after it returns the same sequence, and
\* no call other than a write, a truncate or an open changes the listing of
\* any directory.
C13_ListingStable ==
    /\ ( last.op = "readdir" /\ Met.err = "OK" ) =>
          IF S_ISDIR(Met.node.mode)
          THEN /\ last.err = "OK"
               /\ last.ret = Listing(Met.node)
               /\ PathParts(last.path) = <<>> => last.ret = DotNames \o RootOrder
               /\ readdirOp(root, last.path) = Done(root, last.ret)
          ELSE last.err = "ENOTDIR"
    /\ last.op \in {"getattr", "readdir", "read", "flush", "release"} =>
          Listings(root) = Listings(before)

C13_Witness ==
    /\ last.op = "readdir"
    /\ last.path = Canon(<< <<"model">>, <<"layer">>, <<"0">> >>)
    /\ before # BuiltTable[source]
    /\ last.ret = DotNames \o << <<"weight", ".", "bin">>, <<"weight", ".", "grad">> >>

\* a file no call may change: a weight file in safe mode, the files of sys
\* and ir
ReadOnlyFile(n, ks) ==
    /\ ~S_ISDIR(n.mode)
    /\ \/ ~allow_bin_write /\ IsWeightNode(n, ks)
       \/ ks # <<>> /\ Head(ks) \in {<<"sys">>, <<"ir">>}

\* C14: open with the truncate flag truncates to zero first: on a gradient
\* file it succeeds, returns a handle and leaves the payload empty; on a
\* read-only file it fails with PermissionDenied and changes nothing.  Open
\* without the flag on an existing path succeeds and changes nothing.
C14_OpenTruncate ==
    last.op = "open" =>
        /\ ( HasTrunc(Args[1]) /\ GradFile(before, last.path) /\ Absolute(last.path) )
              => /\ last.err = "OK"
                 /\ last.ret = 0
                 /\ Left.node.data = <<>>
        /\ ( /\ HasTrunc(Args[1])
             /\ Met.err = "OK"
             /\ ReadOnlyFile(Met.node, PathParts(last.path)) )
              => last.err = "EPERM" /\ root = before
        /\ ( ~HasTrunc(Args[1]) /\ Met.err = "OK" )
              => last.err = "OK" /\ last.ret = 0 /\ root = before

C14_Witness ==
    /\ last.op = "open"
    /\ HasTrunc(Args[1])
    /\ GradFile(before, last.path)
    /\ Absolute(last.path)
    /\ Met.node.data # <<>>
    /\ last.err = "OK"

\* the reply and the tree the call in flight gives when the engine runs with
\* allow_bin_write = allow, all else equal
Outcome(allow) ==
    CASE last.op = "write" -> writeOp(before, allow, last.path, Args[1], Args[2])
      [] last.op = "truncate" -> truncateOp(before, allow, last.path, Args[1])
      [] last.op = "open" -> openOp(before, allow, last.path, Args[1])
      [] last.op = "getattr" -> getattrOp(before, last.path)
      [] last.op = "readdir" -> readdirOp(before, last.path)
      [] last.op = "read" -> readOp(before, last.path, Args[1], Args[2])
      [] OTHER -> Done(before, 0)

\* C15: in unsafe mode a write of B at offset o <= len to a weight file
\* succeeds, returns len(B), and a read of len(B) bytes at o returns B; a
\* truncate to zero succeeds and the size becomes 0.  On a file that is not
\* a weight file every call has the same outcome with the flag on and off.
C15_UnsafeWeightWrites ==
    /\ ( /\ allow_bin_write
         /\ last.op = "write"
         /\ WeightFile(before, last.path)
         /\ Absolute(last.path)
         /\ Args[2] <= Len(Met.node.data) )
       => /\ last.err = "OK"
          /\ last.ret = Len(Args[1])
          /\ readOp(root, last.path, Len(Args[1]), Args[2]) = Done(root, Args[1])
    /\ ( /\ allow_bin_write
         /\ last.op = "truncate"
         /\ Args[1] = 0
         /\ WeightFile(before, last.path)
         /\ Absolute(last.path) )
       => /\ last.err = "OK"
          /\ getattrOp(root, last.path).ret.st_size = 0
    /\ ( /\ last.op # "idle"
         /\ Met.err = "OK"
         /\ ~S_ISDIR(Met.node.mode)
         /\ ~IsWeightNode(Met.node, PathParts(last.path)) )
       => Outcome(TRUE) = Outcome(FALSE)

C15_Witness ==
    /\ allow_bin_write
    /\ last.op = "write"
    /\ WeightFile(before, last.path)
    /\ Absolute(last.path)
    /\ Met.node.data = <<1>>
    /\ Args = << <<0>>, 1 >>
    /\ Left.node.data = <<1, 0>>

\* the callback of a thread run alone on tree rt
Alone(rt, th) ==
    CASE th.op = "getattr" -> getattrOp(rt, th.path)
      [] th.op = "readdir" -> readdirOp(rt, th.path)
      [] th.op = "read" -> readOp(rt, th.path, th.args[1], th.args[2])
      [] th.op = "write" ->
            writeOp(rt, allow_bin_write, th.path, th.args[1], th.args[2])
      [] th.op = "truncate" ->
            truncateOp(rt, allow_bin_write, th.path, th.args[1])

\* what the callbacks of threads t and u give when t runs first, from the
\* tree both were issued on
InOrder(t, u) ==
    LET first  == Alone(before, thr[t])
        second == Alone(first.root, thr[u])
    IN  [root |-> second.root,
         reply |-> (t :> <<first.err, first.ret>>) @@ (u :> <<second.err, second.ret>>)]

Observed ==
    [root |-> root, reply |-> [t \in Threads |-> <<thr[t].err, thr[t].ret>>]]

BothDone == \A t \in Threads : thr[t].pc = "done"

\* C16: when the callbacks of two threads overlap, in particular a read
\* with a write or a truncate of the same file, the replies and the final
\* tree are those of one of the two sequential orders: the read returns the
\* bytes before the write or the bytes after it, never a mixture.
C16_Serializable ==
    BothDone => Observed \in { InOrder(1, 2), InOrder(2, 1) }

C16_Witness ==
    /\ BothDone
    /\ thr[2].overlap
    /\ thr[1].op = "write" /\ thr[1].path = GradPath /\ thr[1].args[1] = <<1, 1>>
    /\ thr[2].op = "read" /\ thr[2].path = GradPath
    /\ _resolve(before, GradPath).node.data = <<0, 0>>
    /\ thr[2].ret = <<1, 1>>

\* the thread is outside the with-block: no request, waiting to enter, or
\* returned
Outside(t) == thr[t].pc \in {"idle", "call", "done"}

\* C17: a thread whose callback has returned, with a result or with
\* NotFound, NotADirectory or PermissionDenied, does not hold the lock; when
\* no thread is inside a callback the lock is free; and a thread that waits
\* to enter its callback eventually holds the lock.
C17_LockReleased ==
    /\ [](\A t \in Threads : Outside(t) => rwlock.owner # t)
    /\ []((\A t \in Threads : Outside(t)) => rwlock = Unlocked)
    /\ \A t \in Threads : (thr[t].pc = "call") ~> (rwlock.owner = t)

C17_Witness ==
    /\ thr[1].pc = "done"
    /\ thr[1].err = "EPERM"
    /\ thr[2].overlap
    /\ rwlock.owner = 2

\* what a tree is apart from the payloads: the name and the kind of every
\* node and the ordered map of its children
RECURSIVE Shape(_)
Shape(n) ==
    [name |-> n.name,
     dir |-> S_ISDIR(n.mode),
     children |-> [i \in 1..Len(n.children) |->
                     [k |-> n.children[i].k, v |-> Shape(n.children[i].v)]]]

\* the chains of keys that resolve
ResolvableChains(rt) == { ks \in KeyPaths(rt) : Walk(rt, ks).err = "OK" }

\* C18: the tree starts as build_tree left it, and no call, failed or not, on
\* a path that exists or not, changes the name or the kind of a node, the
\* ordered children of a directory or the set of paths that resolve: after
\* any sequence of calls they are those of the freshly built tree.
C18_StructureFixed ==
    /\ root = Built(source)
    /\ [][ /\ source' = source
           /\ root' # root => /\ Shape(root') = Shape(root)
                               /\ ResolvableChains(root') = ResolvableChains(root) ]_vars

\* a truncate of a path that does not exist, on a tree whose payloads are no
\* longer those of the build
C18_Witness ==
    /\ last.op = "truncate"
    /\ last.path = NoSuchPath
    /\ last.err = "ENOENT"
    /\ root # BuiltTable[source]

PathTaking == {"getattr", "readdir", "read", "write", "truncate", "open"}

\* C19: a call of attributes, list, read, write, truncate or open on a
\* path that does not resolve fails with the error of the resolver, ENOENT
\* for a missing segment and ENOTDIR for a file used as a directory, and
\* leaves the tree as it was.
C19_ResolveFirst ==
    ( last.op \in PathTaking /\ Met.err # "OK" ) =>
        /\ Met.err \in {"ENOENT", "ENOTDIR"}
        /\ last.err = Met.err
        /\ root = before

\* C20: the resolver discards empty segments: every spelling of a sequence
\* of non-empty segments, with or without slashes in front and behind and
\* with one or more slashes between two segments, resolves to the node the
\* segments lead to or fails with the error they fail with, the same for all
\* spellings; a path with no segment resolves to the root.
C20_Normalization ==
    last.op = "_resolve" =>
        LET ks == last.args[1]
            e  == ExpectedErr(root, ks)
            n  == IF e = "OK" THEN Along(root, ks)[Len(ks) + 1] ELSE None
        IN  /\ last.err = e
            /\ last.ret = n
            /\ \A lead \in 0..MaxSlash, mid \in 1..MaxSlash, trail \in 0..MaxSlash :
                  _resolve(root, Spell(ks, lead, mid, trail)) = [err |-> e, node |-> n]
            /\ ks = <<>> => e = "OK" /\ n = root

\* model//layer/ resolved to the directory layer of model
C20_Witness ==
    /\ last.op = "_resolve"
    /\ last.path = <<"model", "/", "/", "layer", "/">>
    /\ last.err = "OK"
    /\ last.ret = Descend(root, << <<"model">>, <<"layer">> >>)
    /\ last.ret # None

\* the keys build_tree assigns in the directory of chain c while it iterates
\* the items from the i-th on: the next segment of a name that passes
\* through c, the two file names of a name that ends in c
RECURSIVE InsertedKeys(_, _, _)
InsertedKeys(src, c, i) ==
    IF i > Len(src.items) THEN <<>>
    ELSE LET item == src.items[i]
             d    == DirChain(src, item.name)
             leaf == LeafOf(src, item.name)
             ev   == IF Skipped(src, item) THEN <<>>
                     ELSE IF Len(d) > Len(c) /\ SubSeq(d, 1, Len(c)) = c
                          THEN <<d[Len(c) + 1]>>
                     ELSE IF d = c THEN <<leaf \o BinSuffix, leaf \o GradSuffix>>
                     ELSE <<>>
         IN  ev \o InsertedKeys(src, c, i + 1)

\* a sequence without the repetitions of its elements
RECURSIVE FirstSeen(_)
FirstSeen(s) ==
    IF s = <<>> THEN <<>>
    ELSE LET r == FirstSeen(SubSeq(s, 1, Len(s) - 1))
             x == s[Len(s)]
         IN  IF \E j \in 1..Len(r) : r[j] = x THEN r ELSE Append(r, x)

\* the items whose files are put in the directory of chain c or below it
Through(src, c) ==
    { i \in 1..Len(src.items) :
        /\ ~Skipped(src, src.items[i])
        /\ LET d == DirChain(src, src.items[i].name)
           IN  Len(d) >= Len(c) /\ SubSeq(d, 1, Len(c)) = c }

\* C21: a directory prefix shared by several qualified names is one
\* Directory of the built tree; its children are in the order of their first
\* insertion while the source is iterated (numeric segments are not sorted),
\* and it holds the two files of every name that ends in it.
C21_SharedDirs ==
    \A i \in 1..Len(source.items) :
       ~Skipped(source, source.items[i]) =>
          LET chain == DirChain(source, source.items[i].name)
          IN  \A j \in 1..Len(chain) :
                 LET c == SubSeq(chain, 1, j)
                     d == Descend(root, c)
                 IN  Cardinality(Through(source, c)) >= 2 =>
                        /\ d # None
                        /\ S_ISDIR(d.mode)
                        /\ keys(d.children) = FirstSeen(InsertedKeys(source, c, 1))
                        /\ \A m \in Through(source, c) :
                              DirChain(source, source.items[m].name) = c =>
                                 LET leaf == LeafOf(source, source.items[m].name)
                                     w    == Get(d.children, leaf \o BinSuffix)
                                     g    == Get(d.children, leaf \o GradSuffix)
                                 IN  /\ w # None /\ ~S_ISDIR(w.mode)
                                     /\ w.data = source.items[m].data
                                     /\ g # None /\ ~S_ISDIR(g.mode)

\* a node and all below it: a file has no children, a directory has no
\* payload, no two children of a node have the same name
RECURSIVE KindsExclusive(_)
KindsExclusive(n) ==
    /\ S_ISDIR(n.mode) => n.data = <<>>
    /\ ~S_ISDIR(n.mode) => n.children = <<>>
    /\ \A i, j \in 1..Len(n.children) :
          ( n.children[i].k = n.children[j].k
            \/ n.children[i].v.name = n.children[j].v.name ) => i = j
    /\ \A i \in 1..Len(n.children) : KindsExclusive(n.children[i].v)

\* C22: in every reachable state, for every source, every File has an empty
\* children map, every Directory a payload of length zero, and names are
\* unique among siblings.
C22_KindExclusive == KindsExclusive(root)

\* C23: after a successful write or truncate of a file, issued when the
\* clock reads now, the file reports now as its time of last modification;
\* a failed write or truncate and the calls that only read leave the
\* reported time as it was.
C23_ModificationTime ==
    ( last.op # "idle" /\ Met.err = "OK" ) =>
        /\ ( /\ last.op \in {"write", "truncate"}
             /\ last.err = "OK"
             /\ ~S_ISDIR(Met.node.mode) )
           => stat(Left.node).st_mtime = now
        /\ ( \/ last.op \in {"write", "truncate"} /\ last.err # "OK"
             \/ last.op \in {"getattr", "readdir", "read"} )
           => stat(Left.node).st_mtime = stat(Met.node).st_mtime

\* S_IXUSR, S_IXGRP, S_IXOTH: some search/execute bit of the mode is set
Searchable(mode) ==
    \/ (mode \div 64) % 2 = 1
    \/ (mode \div 8) % 2 = 1
    \/ mode % 2 = 1

RECURSIVE DirsSearchable(_)
DirsSearchable(n) ==
    /\ S_ISDIR(n.mode) => Searchable(n.mode)
    /\ \A i \in 1..Len(n.children) : DirsSearchable(n.children[i].v)

\* C24: in every reachable state every Directory of the tree (the root,
\* sys, model and the directories below it, activations, ir, logs) has a
\* search/execute bit in its mode.
C24_DirsTraversable == DirsSearchable(root)

\* the element is skipped: no data, bytes that are no whole number of
\* elements, or dims that do not hold the elements
Malformed(item) ==
    \/ item.data = <<>>
    \/ Len(item.data) % item.itemsize # 0
    \/ item.dims # <<>> /\ Prod(item.dims) # Len(item.data) \div item.itemsize

\* C25: the build of a graph never fails; an element that cannot be decoded
\* or whose dims do not match contributes no node, every other element has
\* its .bin with the stored bytes followed by its empty .grad, and sys,
\* activations, ir and logs are there.
C25_TolerantBuild ==
    last.op = "build_tree" =>
        /\ last.err = "OK"
        /\ keys(root.children) = RootOrder
        /\ \A i \in 1..Len(source.items) :
              LET item == source.items[i]
                  m    == Descend(root, << <<"model">> >>)
                  w    == Get(m.children, item.name \o BinSuffix)
                  g    == Get(m.children, item.name \o GradSuffix)
              IN  IF Malformed(item)
                  THEN w = None /\ g = None
                  ELSE /\ w # None /\ ~S_ISDIR(w.mode) /\ w.data = item.data
                       /\ g # None /\ ~S_ISDIR(g.mode) /\ g.data = <<>>

\* everything of a node but its payload and what is below it
Header(n) ==
    [name |-> n.name, mode |-> n.mode, keys |-> keys(n.children),
     atime |-> n.atime, mtime |-> n.mtime, ctime |-> n.ctime]

\* tree b is tree a up to the payload of the node at chain ks
SameButPayloadAt(a, b, ks) ==
    /\ KeyPaths(b) = KeyPaths(a)
    /\ \A c \in KeyPaths(a) :
          /\ Header(Descend(b, c)) = Header(Descend(a, c))
          /\ c # ks => Descend(b, c).data = Descend(a, c).data

\* C26: a call changes the tree only if it is a successful write, truncate
\* or truncating open, and then the tree differs from the one the call met
\* in nothing but the payload of the node addressed: the payload of every
\* other node, and the mode and the children of every node, are as before
\* (so a write or truncate of <leaf>.grad never changes <leaf>.bin, nor the
\* reverse); attributes, list, read, flush and release change nothing.
C26_Frame ==
    \/ root = before
    \/ /\ last.op \in {"write", "truncate", "open"}
       /\ last.err = "OK"
       /\ Met.err = "OK"
       /\ SameButPayloadAt(before, root, PathParts(last.path))

\* a write that replaced the payload of weight.grad next to a weight.bin
\* that holds bytes
C26_Witness ==
    /\ last.op = "write"
    /\ last.err = "OK"
    /\ GradFile(before, last.path)
    /\ Left.node.data # Met.node.data
    /\ Descend(root, << <<"model">>, <<"layer">>, <<"0">>,
                        <<"weight", ".", "bin">> >>).data # <<>>

\* the same call, on the tree the call met, under the spelling with one
\* slash before every segment
Respelled ==
    LET c == Canon(PathParts(last.path))
    IN  IF last.op = "write"
        THEN writeOp(before, allow_bin_write, c, Args[1], Args[2])
        ELSE truncateOp(before, allow_bin_write, c, Args[1])

\* C27: a write or a truncate has the outcome of the same call on any other
\* spelling of a path to the same node: the same error, or success with the
\* same return value and the same tree.
C27_SpellingIndependent ==
    ( last.op \in {"write", "truncate"} /\ Met.err = "OK" ) =>
        /\ Respelled.err = last.err
        /\ Respelled.ret = last.ret
        /\ Respelled.root = root

\* the payload at a path when both threads were issued, and now
Was(p) == _resolve(before, p).node.data
Is(p) == _resolve(root, p).node.data

\* the payload after the positional writes of buffer a and then b at 0
Overwritten(P, a, b) ==
    SliceAssign(SliceAssign(P, 0, Len(a), a), 0, Len(b), b)

BothWrote(p) ==
    /\ BothDone
    /\ \A t \in Threads : thr[t].op = "write" /\ thr[t].path = p

\* C28: when two threads append A and B to the log, the log ends as what it
\* held followed by AB or by BA; when two threads write the same gradient
\* file, its payload ends as after one of the two orders of the two writes;
\* each write returns the length of its buffer.
C28_NoLostUpdate ==
    LET A == thr[1].args[1]
        B == thr[2].args[1]
    IN  /\ BothWrote(LogPath) =>
              /\ Is(LogPath) \in { Was(LogPath) \o A \o B, Was(LogPath) \o B \o A }
              /\ thr[1].ret = Len(A) /\ thr[2].ret = Len(B)
        /\ BothWrote(GradPath) =>
              /\ Is(GradPath) \in { Overwritten(Was(GradPath), A, B),
                                    Overwritten(Was(GradPath), B, A) }
              /\ thr[1].ret = Len(A) /\ thr[2].ret = Len(B)

\* thread 2 was issued while thread 1 was running and appended first
C28_Witness ==
    /\ BothWrote(LogPath)
    /\ thr[2].overlap
    /\ Was(LogPath) = <<0>>
    /\ thr[1].args[1] = <<1>>
    /\ thr[2].args[1] = <<1, 1>>
    /\ Is(LogPath) = <<0, 1, 1, 1>>

====
